---- MODULE Spec2Model ----
(***************************************************************************)
(* Payment integration of ajnabi-connect-vibes5.                           *)
(*                                                                         *)
(*   client  : src/src/services/paymentService.ts  (PaymentService)        *)
(*   backend : src/unnamed/part_002 lines 41-307   (Deno.serve handler)    *)
(*   catalog : src/unnamed/part_002 lines 1-39     (config/payments)       *)
(*                                                                         *)
(* Spec       : the client (script loader, one purchase at a time, a       *)
(*              gateway tester as a second caller of the loader); every    *)
(*              backend answer the client receives is computed by Serve.   *)
(* ServerSpec : the backend handler answering arbitrary HTTP requests.     *)
(*                                                                         *)
(* Numbers are fixed point with Scale units per rupee, so that amounts     *)
(* below one paisa exist and Math.round has something to round.            *)
(* Strings that the code inspects (startsWith, template concatenation)     *)
(* are sequences of tokens; <<>> is the empty (falsy) string.              *)
(***************************************************************************)
EXTENDS Integers, Sequences, FiniteSets, TLC

----------------------------------------------------------------------------
(* Bounds of the model *)

\* number of script loads (promises created by loadRazorpay) in one run
MaxLoads == 3

----------------------------------------------------------------------------
(* Program constants *)

\* paymentService.ts:101  amount > 100000
MaxAmount == 100000
\* part_002:115  body.amount > 100000
ServerMaxAmount == 100000
\* paymentService.ts:135 / part_002:130,160  rupees <-> paise
PaisePerRupee == 100
\* paymentService.ts:463  signature.length > 10
MinSignatureLength == 10

\* fixed point: units per rupee (two units per paisa)
Scale == 2 * 100
Rupees(n) == n * Scale
\* Math.round on a fixed-point number: nearest integer, halves go up
MathRound(x) == ((x + (Scale \div 2)) \div Scale) * Scale

----------------------------------------------------------------------------
(* Strings and signatures *)

EmptyStr == <<>>
\* String.prototype.startsWith on a token sequence
StartsWith(s, prefix) == Len(s) >= 1 /\ s[1] = prefix
\* `${a}|${b}`
JoinWithBar(a, b) == a \o <<"|">> \o b

\* length of a SHA-256 digest written in hex
HexDigestLen == 2 * 32

\* createHmac('sha256', key).update(msg).digest('hex'): a deterministic,
\* collision-free function of (key, msg).  flip # 0 marks a digest one of
\* whose characters was changed afterwards (no party computes such a
\* value with Hmac).
Hmac(key, msg) ==
    [alg |-> "hmac-sha256", key |-> key, msg |-> msg, flip |-> 0, len |-> HexDigestLen]
FlipOneChar(sig) == [sig EXCEPT !.flip = 1]
RawSignature(n) == [alg |-> "raw", key |-> "", msg |-> EmptyStr, flip |-> 0, len |-> n]
NoSignature == RawSignature(0)

----------------------------------------------------------------------------
(* The catalog: config/payments (part_002 lines 1-39) *)

PAYMENT_CONFIG_currency == "INR"
CoinPackageKeys == {"small", "medium", "large"}
COIN_PACKAGES(k) ==
    CASE k = "small"  -> Rupees(29)
      [] k = "medium" -> Rupees(99)
      [] k = "large"  -> Rupees(299)
PremiumPlanKeys == {"day", "week", "month", "lifetime"}
PREMIUM_PLANS(k) ==
    CASE k = "day"      -> Rupees(29)
      [] k = "week"     -> Rupees(199)
      [] k = "month"    -> Rupees(299)
      [] k = "lifetime" -> Rupees(899)
UNLIMITED_CALLS_PLAN_price == Rupees(19)

\* COIN_PACKAGES[key] / PREMIUM_PLANS[key]: a property lookup on an object
\* literal finds the catalog's own entries ("entry"), the members every
\* object inherits from Object.prototype ("inherited": a function, truthy,
\* without price, coins or duration) and nothing else ("undefined")
InheritedKeys == {"constructor", "toString", "valueOf", "hasOwnProperty"}
CatalogLookup(keys, k) ==
    IF k \in keys THEN "entry"
    ELSE IF k \in InheritedKeys THEN "inherited"
    ELSE "undefined"

----------------------------------------------------------------------------
(* The backend: Deno.serve handler (part_002 lines 77-307) *)

\* An HTTP request as the handler reads it.  json = "malformed" makes
\* req.json() throw; hasAmount = FALSE is a body without an amount field.
Request(method, path, json, hasAmount, amount, currency, paymentId, orderId, signature) ==
    [method |-> method, path |-> path, json |-> json,
     hasAmount |-> hasAmount, amount |-> amount, currency |-> currency,
     paymentId |-> paymentId, orderId |-> orderId, signature |-> signature]

\* Deno.env: RAZORPAY_KEY_ID / RAZORPAY_KEY_SECRET ("" = not set)
ProviderSecret == "key_secret"
ConfiguredEnv == [keyId |-> "key_id", keySecret |-> ProviderSecret]
NoSecretEnv == [keyId |-> "key_id", keySecret |-> ""]
NoKeyIdEnv == [keyId |-> "", keySecret |-> ProviderSecret]
Envs == {ConfiguredEnv, NoSecretEnv, NoKeyIdEnv}

\* 'Basic ' + btoa(`${id}:${secret}`)
BasicAuth(env) == <<"Basic", env.keyId, env.keySecret>>

\* What the provider's REST API does with one request of the handler:
\*   order   : "ok" (the order is created and echoed), "http_error", "network"
\*   payment : the status of an OK lookup, or "http_error", "network"
ProviderOrderOutcomes == {"ok", "http_error", "network"}
ProviderPaymentOutcomes ==
    {"captured", "authorized", "failed", "created", "http_error", "network"}
ProviderOutcomes ==
    [order : ProviderOrderOutcomes, payment : ProviderPaymentOutcomes]
\* the outcomes that matter to a create-order / a verify-payment request
OrderOutcomes == {p \in ProviderOutcomes : p.payment = "captured"}
PaymentOutcomes == {p \in ProviderOutcomes : p.order = "ok"}
ProviderOrderId == <<"order_", "abc">>
ProviderCall(api, env, amount, currency, paymentId) ==
    [api |-> api, auth |-> BasicAuth(env), amount |-> amount,
     currency |-> currency, paymentId |-> paymentId]

corsHeaders == TRUE
\* calls and hmac are not part of the body: the provider calls the handler
\* made for this response, and whether it computed a signature
JsonResponse(status, success, verified, paymentId, orderId, amount, currency, error, calls) ==
    [status |-> status, cors |-> corsHeaders, hasBody |-> TRUE,
     success |-> success, verified |-> verified,
     paymentId |-> paymentId, orderId |-> orderId,
     amount |-> amount, currency |-> currency, error |-> error,
     calls |-> calls, hmac |-> FALSE]
ErrorResponse(status, error, calls) ==
    JsonResponse(status, FALSE, FALSE, EmptyStr, EmptyStr, 0, "", error, calls)
\* new Response(null, {status: 200, headers: corsHeaders})
PreflightResponse ==
    [ErrorResponse(200, "", <<>>) EXCEPT !.hasBody = FALSE]
\* the outer catch
\* mutant: the outer catch answers without the cross-origin headers
InternalErrorResponseBare ==
    [ErrorResponse(500, "Internal server error", <<>>) EXCEPT !.cors = FALSE]
InternalErrorResponse == ErrorResponse(500, "Internal server error", <<>>)

\* !body.amount || body.amount <= 0 || body.amount > 100000
\* mutant: the upper bound is not checked
ServerInvalidAmountNoCap(req) ==
    \/ ~req.hasAmount
    \/ req.amount = 0
    \/ req.amount <= 0
ServerInvalidAmount(req) ==
    \/ ~req.hasAmount
    \/ req.amount = 0
    \/ req.amount <= 0
    \/ req.amount > Rupees(ServerMaxAmount)

\* amount: Math.round(body.amount * 100), currency: body.currency || 'INR'
\* mutant: the amount is not scaled
OrderDataUnscaled(req) ==
    [amount   |-> MathRound(req.amount),
     currency |-> IF req.currency = "" THEN "INR" ELSE req.currency]
OrderData(req) ==
    [amount   |-> MathRound(req.amount * PaisePerRupee),
     currency |-> IF req.currency = "" THEN "INR" ELSE req.currency]

\* what the provider call of create-order can fail with: the body of a
\* non-OK answer (errorData, logged only), the Error thrown for it, and the
\* exception of a fetch that could not reach the provider
ProviderErrorText == "provider error body"
ApiErrorMessage == "Razorpay API error: status"
NetworkErrorMessage == "error sending request to api.razorpay.com"
OrderError(outcome) ==
    IF outcome = "http_error" THEN ApiErrorMessage ELSE NetworkErrorMessage

\* the inner catch of create-order (169-181)
\* mutant: the caught error's message is sent to the caller
OrderCatchEchoesError(error, calls) == ErrorResponse(500, error, calls)
OrderCatch(error, calls) ==
    ErrorResponse(500, "Failed to create payment order", calls)

CreateOrderEndpoint(req, env, prov) ==
    IF req.json = "malformed" THEN InternalErrorResponse
    ELSE IF ServerInvalidAmount(req)
    THEN ErrorResponse(400, "Invalid amount. Must be between 1 and 1,00,000", <<>>)
    ELSE LET orderData == OrderData(req)
             call == ProviderCall("orders", env, orderData.amount,
                                  orderData.currency, EmptyStr)
         IN  IF prov.order = "ok"
             THEN \* the provider echoes the order it was given; the handler
                  \* answers order.amount / 100
                  JsonResponse(200, TRUE, FALSE, EmptyStr, ProviderOrderId,
                               orderData.amount \div PaisePerRupee,
                               orderData.currency, "", <<call>>)
             ELSE OrderCatch(OrderError(prov.order), <<call>>)

\* !body.razorpay_payment_id || !body.razorpay_order_id || !body.razorpay_signature
\* mutant: the order id is not checked
MissingVerifyParamsIgnoresOrderId(req) ==
    \/ req.paymentId = EmptyStr
    \/ req.signature.len = 0
MissingVerifyParams(req) ==
    \/ req.paymentId = EmptyStr
    \/ req.orderId = EmptyStr
    \/ req.signature.len = 0

generatedSignature(req, env) ==
    Hmac(env.keySecret, JoinWithBar(req.orderId, req.paymentId))
\* mutant: only the leading part of the two digests is compared
CompareSignaturePrefix(req, env) ==
    /\ generatedSignature(req, env).alg = req.signature.alg
    /\ generatedSignature(req, env).key = req.signature.key
    /\ generatedSignature(req, env).msg = req.signature.msg
isSignatureValid(req, env) == generatedSignature(req, env) = req.signature

\* paymentData.status !== 'captured' && paymentData.status !== 'authorized'
\* on an OK lookup; a failed lookup is logged and ignored
\* mutant: a failed lookup counts as a rejected payment
LookupRejectsOnFailure(outcome) ==
    /\ outcome # "captured"
    /\ outcome # "authorized"
\* mutant: the looked-up status is ignored
LookupNeverRejects(outcome) == FALSE
\* mutant: a lookup that throws counts as a rejected payment
LookupRejectsOnException(outcome) ==
    /\ outcome # "http_error"
    /\ outcome # "captured"
    /\ outcome # "authorized"
LookupRejects(outcome) ==
    /\ outcome \notin {"http_error", "network"}
    /\ outcome # "captured"
    /\ outcome # "authorized"

\* a response produced after createHmac(...).digest('hex') ran
Signed(resp) == [resp EXCEPT !.hmac = TRUE]

VerifyPaymentEndpoint(req, env, prov) ==
    IF req.json = "malformed" THEN InternalErrorResponse
    ELSE IF MissingVerifyParams(req)
    THEN ErrorResponse(400, "Missing payment verification parameters", <<>>)
    ELSE IF isSignatureValid(req, env)
    THEN LET call == ProviderCall("payments", env, 0, "", req.paymentId)
         IN  IF LookupRejects(prov.payment)
             THEN Signed(ErrorResponse(400, "Payment not completed successfully", <<call>>))
             ELSE Signed(JsonResponse(200, TRUE, TRUE, req.paymentId, req.orderId,
                                      0, "", "", <<call>>))
    ELSE Signed(ErrorResponse(400, "Invalid payment signature", <<>>))

\* mutant: only the key secret is required
ServeChecksSecretOnly(req, env, prov) ==
    IF req.method = "OPTIONS" THEN PreflightResponse
    ELSE IF env.keySecret = ""
    THEN ErrorResponse(500, "Payment service configuration error", <<>>)
    ELSE IF req.path = "/create-order" /\ req.method = "POST"
    THEN CreateOrderEndpoint(req, env, prov)
    ELSE IF req.path = "/verify-payment" /\ req.method = "POST"
    THEN VerifyPaymentEndpoint(req, env, prov)
    ELSE ErrorResponse(404, "Endpoint not found", <<>>)
Serve(req, env, prov) ==
    IF req.method = "OPTIONS" THEN PreflightResponse
    ELSE IF env.keyId = "" \/ env.keySecret = ""
    THEN ErrorResponse(500, "Payment service configuration error", <<>>)
    ELSE IF req.path = "/create-order" /\ req.method = "POST"
    THEN CreateOrderEndpoint(req, env, prov)
    ELSE IF req.path = "/verify-payment" /\ req.method = "POST"
    THEN VerifyPaymentEndpoint(req, env, prov)
    ELSE ErrorResponse(404, "Endpoint not found", <<>>)

\* response.ok
ResponseOk(resp) == resp.status >= 200 /\ resp.status <= 299

----------------------------------------------------------------------------
(* State *)

VARIABLES
    isRazorpayLoaded,   \* PaymentService.isRazorpayLoaded
    loadingPromise,     \* PaymentService.loadingPromise: 0 = null, else a promise id
    promises,           \* promises created by loadRazorpay: "pending", "true", "false"
    scripts,            \* script elements created by loadRazorpay
    windowRazorpay,     \* window.Razorpay is defined
    env,                \* the backend's environment (Deno.env)
    purchase,           \* the purchase in progress (initiatePayment and its callbacks)
    tester,             \* a testPaymentGateway call, a second caller of loadRazorpay
    exchange,           \* ServerSpec: the last request served and its response
    verification        \* VerifierSpec: the last direct verifyPaymentWithBackend call

loaderVars == <<isRazorpayLoaded, loadingPromise, promises, scripts, windowRazorpay>>
vars == <<isRazorpayLoaded, loadingPromise, promises, scripts, windowRazorpay,
          env, purchase, tester, exchange, verification>>

----------------------------------------------------------------------------
(* Gateway loader: PaymentService.loadRazorpay (paymentService.ts 35-93) *)

\* new Promise(...): the first resolve() settles it, later ones do nothing
ResolvePromise(ps, id, value) ==
    IF ps[id] = "pending" THEN [ps EXCEPT ![id] = value] ELSE ps

NewScript(id) == [promise |-> id, timer |-> TRUE, fired |-> "none", inDom |-> TRUE]

\* One call of loadRazorpay up to its return; handle is what the caller
\* awaits: 0 for the immediate `return true`, else the id of the promise.
LoadRazorpay(handle) ==
    \/ /\ isRazorpayLoaded
       /\ handle = 0
       /\ UNCHANGED loaderVars
    \/ /\ ~isRazorpayLoaded
       /\ loadingPromise # 0
       /\ handle = loadingPromise
       /\ UNCHANGED loaderVars
    \/ /\ ~isRazorpayLoaded
       /\ loadingPromise = 0
       /\ Len(promises) < MaxLoads
       /\ handle = Len(promises) + 1
       /\ loadingPromise' = handle
       /\ IF windowRazorpay
          THEN /\ isRazorpayLoaded' = TRUE
               /\ promises' = Append(promises, "true")
               /\ UNCHANGED scripts
          ELSE /\ promises' = Append(promises, "pending")
               /\ scripts' = Append(scripts, NewScript(handle))
               /\ UNCHANGED isRazorpayLoaded
       /\ UNCHANGED windowRazorpay

\* await of a loadRazorpay result
Settled(handle) == IF handle = 0 THEN TRUE ELSE promises[handle] # "pending"
LoadValue(handle) == IF handle = 0 THEN TRUE ELSE promises[handle] = "true"

\* script.onload: the script ran; it normally defines window.Razorpay
ScriptOnLoad(i) ==
    /\ scripts[i].fired = "none"
    /\ scripts' = [scripts EXCEPT ![i].fired = "load", ![i].timer = FALSE]
    /\ isRazorpayLoaded' = TRUE
    /\ promises' = ResolvePromise(promises, scripts[i].promise, "true")
    /\ \E defines \in BOOLEAN : windowRazorpay' = (windowRazorpay \/ defines)
    /\ UNCHANGED loadingPromise

\* script.onerror
\* mutant: the error handler leaves the in-flight handle in place
ScriptOnErrorKeepsHandle(i) ==
    /\ scripts[i].fired = "none"
    /\ scripts' = [scripts EXCEPT ![i].fired = "error", ![i].timer = FALSE,
                                  ![i].inDom = FALSE]
    /\ isRazorpayLoaded' = FALSE
    /\ promises' = ResolvePromise(promises, scripts[i].promise, "false")
    /\ UNCHANGED <<loadingPromise, windowRazorpay>>
ScriptOnError(i) ==
    /\ scripts[i].fired = "none"
    /\ scripts' = [scripts EXCEPT ![i].fired = "error", ![i].timer = FALSE,
                                  ![i].inDom = FALSE]
    /\ isRazorpayLoaded' = FALSE
    /\ loadingPromise' = 0
    /\ promises' = ResolvePromise(promises, scripts[i].promise, "false")
    /\ UNCHANGED windowRazorpay

\* the 10 s timer; the removed element may still fire load or error later
\* mutant: the timer callback removes the element but resolves nothing
ScriptTimeoutWithoutResolve(i) ==
    /\ scripts[i].timer
    /\ scripts' = [scripts EXCEPT ![i].timer = FALSE, ![i].inDom = FALSE]
    /\ isRazorpayLoaded' = FALSE
    /\ loadingPromise' = 0
    /\ UNCHANGED <<promises, windowRazorpay>>
ScriptTimeout(i) ==
    /\ scripts[i].timer
    /\ scripts' = [scripts EXCEPT ![i].timer = FALSE, ![i].inDom = FALSE]
    /\ isRazorpayLoaded' = FALSE
    /\ loadingPromise' = 0
    /\ promises' = ResolvePromise(promises, scripts[i].promise, "false")
    /\ UNCHANGED windowRazorpay

----------------------------------------------------------------------------
(* Purchase: PaymentService.initiatePayment and the operations built on it *)

NoResponse == ErrorResponse(0, "", <<>>)
PaymentResult(success, paymentId, orderId, signature, error) ==
    [success |-> success, paymentId |-> paymentId, orderId |-> orderId,
     signature |-> signature, error |-> error]
Failure(error) == PaymentResult(FALSE, EmptyStr, EmptyStr, NoSignature, error)
NoPayment == [paymentId |-> EmptyStr, orderId |-> EmptyStr, signature |-> NoSignature]
NoCheckout == [amount |-> 0, currency |-> "", order_id |-> EmptyStr]

\* pc: "idle", "awaitLoad", "awaitOrder", "checkout", "simulating", "done"
IdlePurchase ==
    [pc |-> "idle",
     initiated |-> FALSE,       \* initiatePayment was called
     selection |-> "none",      \* what the catalog lookup of the operation found
     amount |-> 0, currency |-> "", wait |-> 0,
     injected |-> FALSE,        \* this purchase's loadRazorpay call created a script element
     isLoaded |-> "none",       \* what `await this.loadRazorpay()` gave: "true", "false"
     orderRequests |-> 0,       \* create-order requests sent
     orderResponse |-> NoResponse,
     checkout |-> NoCheckout,   \* the options handed to new window.Razorpay
     opened |-> FALSE,          \* razorpay.open() was called
     dismissed |-> FALSE, failedEvent |-> FALSE,
     handler |-> "none",        \* "none", "verifying", "done"
     payment |-> NoPayment,     \* the response given to the success handler
     verifyRequests |-> 0,      \* verify-payment requests sent
     verifyResponse |-> NoResponse,
     simulated |-> FALSE,       \* simulatePayment was called
     cause |-> "",              \* what made initiatePayment leave its normal path
     thrown |-> FALSE,          \* the operation rejected instead of returning
     resolved |-> FALSE, result |-> Failure("")]

\* resolve(result) of the promise initiatePayment returns: only the first
\* call settles it
\* mutant: every call of resolve replaces the result
ResolveLastWins(p, result) == [p EXCEPT !.resolved = TRUE, !.result = result]
Resolve(p, result) ==
    IF p.resolved THEN p ELSE [p EXCEPT !.resolved = TRUE, !.result = result]

\* simulatePayment: the promise and its 1500 ms timer.  cause records the
\* caller: "GatewayUnavailable" (158-168), "InvalidAmount" and
\* "OrderCreationFailed" (the catch block), "CheckoutFailed" (277-281)
\* mutant: the simulation asks the backend for an order
SimulatePaymentContactsBackend(p, cause) ==
    [p EXCEPT !.pc = "simulating", !.simulated = TRUE, !.cause = cause,
              !.orderRequests = @ + 1]
SimulatePayment(p, cause) ==
    [p EXCEPT !.pc = "simulating", !.simulated = TRUE, !.cause = cause]
DemoPaymentId == <<"demo_pay_", "now">>
DemoOrderId == <<"demo_order_", "now">>
\* 'demo_signature_' + Date.now()
DemoSignature == RawSignature(15 + 13)
DemoResult == PaymentResult(TRUE, DemoPaymentId, DemoOrderId, DemoSignature, "")

\* the catch block of initiatePayment (283-287)
\* mutant: a failed order creation is tried once more
InitiatePaymentCatchRetries(p, cause) ==
    IF cause = "OrderCreationFailed" /\ p.orderRequests < 2
    THEN [p EXCEPT !.pc = "awaitOrder", !.orderRequests = @ + 1]
    ELSE SimulatePayment(p, cause)
InitiatePaymentCatch(p, cause) == SimulatePayment(p, cause)

\* !options.amount || options.amount <= 0
ClientInvalidAmount(amount) == amount = 0 \/ amount <= 0
\* createOrder: amount <= 0 || amount > 100000
CreateOrderInvalidAmount(amount) == amount <= 0 \/ amount > Rupees(MaxAmount)

\* initiatePayment from `await this.loadRazorpay()` up to the fetch of
\* createOrder (156-177, 96-118)
\* mutant: the result of loadRazorpay is not looked at
AfterLoadIgnoresLoad(p, isLoaded, hasRazorpay) ==
    LET q == [p EXCEPT !.wait = 0,
                       !.isLoaded = IF isLoaded THEN "true" ELSE "false"]
    IN  IF CreateOrderInvalidAmount(q.amount)
        THEN InitiatePaymentCatch(q, "InvalidAmount")
        ELSE [q EXCEPT !.pc = "awaitOrder", !.orderRequests = @ + 1]
AfterLoad(p, isLoaded, hasRazorpay) ==
    LET q == [p EXCEPT !.wait = 0,
                       !.isLoaded = IF isLoaded THEN "true" ELSE "false"]
    IN  IF ~isLoaded THEN SimulatePayment(q, "GatewayUnavailable")
        ELSE IF ~hasRazorpay THEN SimulatePayment(q, "GatewayUnavailable")
        ELSE IF CreateOrderInvalidAmount(q.amount)
             THEN InitiatePaymentCatch(q, "InvalidAmount")
        ELSE [q EXCEPT !.pc = "awaitOrder", !.orderRequests = @ + 1]

\* initiatePayment up to its first suspension.  An await of a settled
\* promise continues in a microtask, before any other event.
InitiatePayment(options) ==
    LET p == [IdlePurchase EXCEPT !.initiated = TRUE, !.amount = options.amount,
                                  !.currency = options.currency,
                                  !.selection = options.selection]
    IN  IF ClientInvalidAmount(options.amount)
        THEN /\ purchase' = InitiatePaymentCatch(p, "InvalidAmount")
             /\ UNCHANGED loaderVars
        ELSE \E h \in 0..MaxLoads :
                /\ LoadRazorpay(h)
                /\ LET q == [p EXCEPT !.injected = (Len(scripts') > Len(scripts))]
                   IN  purchase' =
                         IF Settled(h)'
                         THEN AfterLoad(q, LoadValue(h)', windowRazorpay')
                         ELSE [q EXCEPT !.pc = "awaitLoad", !.wait = h]

\* a new operation may start once the previous one has delivered its result
\* and none of its callbacks is still running
CanStart ==
    \/ purchase.pc \in {"idle", "done"}
    \/ purchase.pc = "checkout" /\ purchase.resolved /\ purchase.handler # "verifying"

\* the options callers pass to initiatePayment directly
DirectOptions ==
    {[amount |-> Rupees(0) - Scale, currency |-> "", selection |-> "none"],
     [amount |-> 0, currency |-> "", selection |-> "none"],
     [amount |-> Rupees(299) + (Scale \div 8), currency |-> "",   \* 299.125
      selection |-> "none"],
     [amount |-> Rupees(MaxAmount), currency |-> "USD", selection |-> "none"],
     [amount |-> Rupees(MaxAmount) + Scale, currency |-> "", selection |-> "none"]}

\* the options a catalog operation builds from what its lookup found; the
\* price of an inherited member is undefined, for which !options.amount
\* holds as it does for 0
UndefinedPrice == 0
CatalogOptions(found, price) ==
    [amount |-> IF found = "entry" THEN price ELSE UndefinedPrice,
     currency |-> "", selection |-> found]
\* error.message of coinPackage.coins.toString() on an inherited member
TypeErrorMessage == "Cannot read properties of undefined (reading 'toString')"
\* a catalog operation that returns without calling initiatePayment
ReturnsFailure(found, error) ==
    Resolve([IdlePurchase EXCEPT !.pc = "done", !.selection = found],
            Failure(error))

CallInitiatePayment ==
    /\ CanStart
    /\ \E o \in DirectOptions : InitiatePayment(o)
    /\ UNCHANGED <<env, tester, exchange, verification>>

\* !coinPackage
CoinPackageMissing(found) == found = "undefined"

BuyCoinPackage ==
    /\ CanStart
    /\ \E k \in {"small", "unknown", "constructor"} :
          LET coinPackage == CatalogLookup(CoinPackageKeys, k)
          IN  IF CoinPackageMissing(coinPackage)
              THEN /\ purchase' = ReturnsFailure(coinPackage,
                                       "Invalid coin package selected")
                   /\ UNCHANGED loaderVars
              ELSE IF coinPackage # "entry"
              THEN \* coinPackage.coins.toString() throws; the catch of
                   \* buyCoinPackage returns error.message
                   /\ purchase' = ReturnsFailure(coinPackage, TypeErrorMessage)
                   /\ UNCHANGED loaderVars
              ELSE InitiatePayment(CatalogOptions(coinPackage, COIN_PACKAGES(k)))
    /\ UNCHANGED <<env, tester, exchange, verification>>

SubscribeToPremium ==
    /\ CanStart
    /\ \E k \in {"day", "unknown", "constructor"} :
          LET plan == CatalogLookup(PremiumPlanKeys, k)
          IN  IF plan = "undefined"
              THEN /\ purchase' = ReturnsFailure(plan,
                                       "Invalid premium plan selected")
                   /\ UNCHANGED loaderVars
              ELSE \* plan.price and plan.duration are read, nothing is
                   \* called on them
                   InitiatePayment(CatalogOptions(plan,
                       IF plan = "entry" THEN PREMIUM_PLANS(k) ELSE UndefinedPrice))
    /\ UNCHANGED <<env, tester, exchange, verification>>

SubscribeToUnlimitedCalls ==
    /\ CanStart
    /\ InitiatePayment([amount |-> UNLIMITED_CALLS_PLAN_price, currency |-> "",
                        selection |-> "none"])
    /\ UNCHANGED <<env, tester, exchange, verification>>

\* the fetch calls of the client: method, path under PAYMENT_API_URL and
\* Authorization header (<<>> when the call sets none)
AnonKeyBearer == <<"Bearer", "VITE_SUPABASE_ANON_KEY">>
Fetch(method, path, authorization) ==
    [method |-> method, path |-> path, authorization |-> authorization]
NoFetch == Fetch("", "", <<>>)
CreateOrderFetch == Fetch("POST", "/create-order", AnonKeyBearer)
VerifyPaymentFetch == Fetch("POST", "/verify-payment", AnonKeyBearer)
\* fetch(`${PAYMENT_API_URL}/health`, { method: 'GET' })
HealthFetch == Fetch("GET", "/health", <<>>)

\* the create-order request of createOrder (106-118)
CreateOrderRequest(p) ==
    Request(CreateOrderFetch.method, CreateOrderFetch.path, "ok", TRUE, p.amount,
            IF p.currency = "" THEN "INR" ELSE p.currency,
            EmptyStr, EmptyStr, NoSignature)

\* the order createOrder returns (133-137)
ClientOrder(p, resp) ==
    [orderId |-> resp.orderId, amount |-> p.amount * PaisePerRupee]

\* the options of new window.Razorpay (181-187)
RazorpayOptions(p, order) ==
    [amount   |-> order.amount,
     currency |-> IF p.currency = "" THEN PAYMENT_CONFIG_currency ELSE p.currency,
     order_id |-> order.orderId]

\* createOrder throws: fetch rejected, !response.ok, or !result.success
OrderFailed(net, resp) ==
    net = "unreachable" \/ ~ResponseOk(resp) \/ ~resp.success

\* the create-order fetch ends and createOrder throws; initiatePayment catches
OrderRequestFails ==
    /\ purchase.pc = "awaitOrder"
    /\ \E net \in {"reached", "unreachable"}, prov \in OrderOutcomes :
          LET resp == Serve(CreateOrderRequest(purchase), env, prov)
          IN  /\ OrderFailed(net, resp)
              /\ purchase' = InitiatePaymentCatch(
                     [purchase EXCEPT !.orderResponse =
                          IF net = "reached" THEN resp ELSE NoResponse],
                     "OrderCreationFailed")
    /\ UNCHANGED <<loaderVars, env, tester, exchange, verification>>

\* the order is created; new window.Razorpay(options) and open() succeed
CheckoutOpens ==
    /\ purchase.pc = "awaitOrder"
    /\ \E prov \in OrderOutcomes :
          LET resp == Serve(CreateOrderRequest(purchase), env, prov)
          IN  /\ ~OrderFailed("reached", resp)
              /\ purchase' = [purchase EXCEPT
                     !.pc = "checkout", !.orderResponse = resp, !.opened = TRUE,
                     !.checkout = RazorpayOptions(purchase, ClientOrder(purchase, resp))]
    /\ UNCHANGED <<loaderVars, env, tester, exchange, verification>>

\* the order is created; new window.Razorpay(options) or open() throws (277-281)
CheckoutConstructionFails ==
    /\ purchase.pc = "awaitOrder"
    /\ \E prov \in OrderOutcomes :
          LET resp == Serve(CreateOrderRequest(purchase), env, prov)
          IN  /\ ~OrderFailed("reached", resp)
              /\ purchase' = SimulatePayment(
                     [purchase EXCEPT !.orderResponse = resp,
                          !.checkout = RazorpayOptions(purchase, ClientOrder(purchase, resp))],
                     "CheckoutFailed")
    /\ UNCHANGED <<loaderVars, env, tester, exchange, verification>>

\* the timer of simulatePayment fires
SimulationTimer ==
    /\ purchase.pc = "simulating"
    /\ purchase' = Resolve([purchase EXCEPT !.pc = "done"], DemoResult)
    /\ UNCHANGED <<loaderVars, env, tester, exchange, verification>>

----------------------------------------------------------------------------
(* Checkout callbacks and verification (paymentService.ts 219-276, 409-465) *)

PaymentId1 == <<"pay_", "1">>
\* what the provider signs with the key secret it shares with the backend
ProviderSignature(orderId, paymentId) ==
    Hmac(ProviderSecret, JoinWithBar(orderId, paymentId))
Triple(paymentId, orderId, signature) ==
    [paymentId |-> paymentId, orderId |-> orderId, signature |-> signature]

\* the responses the checkout UI may hand to the success handler: the
\* provider's own, one with a character of the signature changed, one with
\* a made-up short signature, one without payment id
CheckoutResponses(p) ==
    LET o == p.checkout.order_id
    IN  {Triple(PaymentId1, o, ProviderSignature(o, PaymentId1)),
         Triple(PaymentId1, o, FlipOneChar(ProviderSignature(o, PaymentId1))),
         Triple(PaymentId1, o, RawSignature(5)),
         Triple(EmptyStr, o, ProviderSignature(o, PaymentId1))}

\* isValidPaymentFormat (459-465)
isValidPaymentFormat(paymentId, orderId, signature) ==
    /\ StartsWith(paymentId, "pay_") \/ StartsWith(paymentId, "demo_pay_")
    /\ StartsWith(orderId, "order_") \/ StartsWith(orderId, "demo_order_")
    /\ signature.len > MinSignatureLength

\* !paymentId || !orderId || !signature
MissingPaymentParams(pay) ==
    pay.paymentId = EmptyStr \/ pay.orderId = EmptyStr \/ pay.signature.len = 0

VerifyRequest(pay) ==
    Request(VerifyPaymentFetch.method, VerifyPaymentFetch.path, "ok", FALSE, 0, "",
            pay.paymentId, pay.orderId, pay.signature)

Verification(success, error) == [success |-> success, error |-> error]

\* the catch block of verifyPaymentWithBackend (444-455)
VerifyCatch(pay) ==
    LET clientVerification ==
            isValidPaymentFormat(pay.paymentId, pay.orderId, pay.signature)
    IN  Verification(clientVerification,
                     IF clientVerification THEN "" ELSE "Payment verification failed")

\* verifyPaymentWithBackend once its fetch has ended: net = "unreachable"
\* is a rejected fetch, otherwise resp is the backend's answer
VerifyPaymentWithBackend(pay, net, resp) ==
    IF net = "unreachable" \/ ~ResponseOk(resp)
    THEN VerifyCatch(pay)
    ELSE Verification(resp.success /\ resp.verified,
                      IF resp.verified THEN ""
                      ELSE IF resp.error # "" THEN resp.error
                      ELSE "Payment verification failed")

\* what the success handler resolves the purchase with (241-253)
HandlerResult(pay, verificationResult) ==
    IF verificationResult.success
    THEN PaymentResult(TRUE, pay.paymentId, pay.orderId, pay.signature, "")
    ELSE Failure(IF verificationResult.error # "" THEN verificationResult.error
                 ELSE "Payment verification failed")

CheckoutOpen == purchase.pc = "checkout" /\ purchase.opened

\* handler: the checkout UI reports a payment; verifyPaymentWithBackend runs
\* up to its fetch (or returns at once when a parameter is missing)
SuccessHandler ==
    /\ CheckoutOpen
    /\ purchase.handler = "none"
    /\ \E pay \in CheckoutResponses(purchase) :
          purchase' =
            IF MissingPaymentParams(pay)
            THEN Resolve([purchase EXCEPT !.handler = "done", !.payment = pay],
                         HandlerResult(pay, Verification(FALSE, "Missing payment parameters")))
            ELSE [purchase EXCEPT !.handler = "verifying", !.payment = pay,
                                  !.verifyRequests = @ + 1]
    /\ UNCHANGED <<loaderVars, env, tester, exchange, verification>>

\* the verify-payment fetch ends and the handler resolves the purchase
VerifyAnswered ==
    /\ purchase.pc = "checkout"
    /\ purchase.handler = "verifying"
    /\ \E net \in {"reached", "unreachable"}, prov \in PaymentOutcomes :
          LET resp == Serve(VerifyRequest(purchase.payment), env, prov)
              got  == IF net = "reached" THEN resp ELSE NoResponse
          IN  purchase' =
                Resolve([purchase EXCEPT !.handler = "done", !.verifyResponse = got],
                        HandlerResult(purchase.payment,
                                      VerifyPaymentWithBackend(purchase.payment, net, resp)))
    /\ UNCHANGED <<loaderVars, env, tester, exchange, verification>>

\* modal.ondismiss
OnDismiss ==
    /\ CheckoutOpen
    /\ ~purchase.dismissed
    /\ purchase' = Resolve([purchase EXCEPT !.dismissed = TRUE],
                           Failure("Payment cancelled by user"))
    /\ UNCHANGED <<loaderVars, env, tester, exchange, verification>>

\* razorpay.on('payment.failed', ...)
OnPaymentFailed ==
    /\ CheckoutOpen
    /\ ~purchase.failedEvent
    /\ \E description \in {"", "Card declined"} :
          purchase' = Resolve([purchase EXCEPT !.failedEvent = TRUE],
                              Failure(IF description # "" THEN description
                                      ELSE "Payment failed"))
    /\ UNCHANGED <<loaderVars, env, tester, exchange, verification>>

----------------------------------------------------------------------------
(* testPaymentGateway (paymentService.ts 525-561) *)

\* health: the fetch testPaymentGateway has sent to the backend
IdleTester == [pc |-> "idle", wait |-> 0, available |-> FALSE, health |-> NoFetch]

\* testPaymentGateway from `await this.loadRazorpay()` up to the health fetch
TesterAfterLoad(t, isLoaded, hasRazorpay) ==
    IF isLoaded /\ hasRazorpay
    THEN [t EXCEPT !.pc = "awaitHealth", !.wait = 0, !.health = HealthFetch]
    ELSE [t EXCEPT !.pc = "done", !.wait = 0, !.available = FALSE]

TestPaymentGateway ==
    /\ tester.pc \in {"idle", "done"}
    /\ \E h \in 0..MaxLoads :
          /\ LoadRazorpay(h)
          /\ tester' = IF Settled(h)'
                       THEN TesterAfterLoad(IdleTester, LoadValue(h)', windowRazorpay')
                       ELSE [IdleTester EXCEPT !.pc = "awaitLoad", !.wait = h]
    /\ UNCHANGED <<env, purchase, exchange, verification>>

\* the health fetch ends, whatever its outcome
TesterHealthAnswered ==
    /\ tester.pc = "awaitHealth"
    /\ tester' = [tester EXCEPT !.pc = "done", !.available = TRUE]
    /\ UNCHANGED <<loaderVars, env, purchase, exchange, verification>>

----------------------------------------------------------------------------
(* Script events *)

\* the callers awaiting promise id continue as soon as an event settles it
Awaiting(caller, id) ==
    caller.pc = "awaitLoad" /\ caller.wait = id /\ promises[id] = "pending"
ResumeAwaiters(id) ==
    /\ purchase' = IF Awaiting(purchase, id) /\ Settled(id)'
                   THEN AfterLoad(purchase, LoadValue(id)', windowRazorpay')
                   ELSE purchase
    /\ tester' = IF Awaiting(tester, id) /\ Settled(id)'
                 THEN TesterAfterLoad(tester, LoadValue(id)', windowRazorpay')
                 ELSE tester

OnLoad ==
    /\ \E i \in 1..Len(scripts) :
          ScriptOnLoad(i) /\ ResumeAwaiters(scripts[i].promise)
    /\ UNCHANGED <<env, exchange, verification>>

OnError ==
    /\ \E i \in 1..Len(scripts) :
          ScriptOnError(i) /\ ResumeAwaiters(scripts[i].promise)
    /\ UNCHANGED <<env, exchange, verification>>

Timeout ==
    /\ \E i \in 1..Len(scripts) :
          ScriptTimeout(i) /\ ResumeAwaiters(scripts[i].promise)
    /\ UNCHANGED <<env, exchange, verification>>

----------------------------------------------------------------------------
(* The backend serving arbitrary requests *)

OrderIdWithBar == <<"order_", "abc", "|", "pay_">>
\* -1, 0, half a paisa, one paisa, 299.125, 299, the cap, the cap + 1
RequestAmounts ==
    {Rupees(0) - Scale, 0, 1, Scale \div 100,
     Rupees(299) + (Scale \div 8), Rupees(299),
     Rupees(ServerMaxAmount), Rupees(ServerMaxAmount) + Scale}
RequestSignatures ==
    {ProviderSignature(ProviderOrderId, PaymentId1),
     FlipOneChar(ProviderSignature(ProviderOrderId, PaymentId1)),
     ProviderSignature(ProviderOrderId, <<"pay_", "2">>),
     Hmac("other_key", JoinWithBar(ProviderOrderId, PaymentId1)),
     RawSignature(HexDigestLen), NoSignature}
CreateOrderRequests ==
    {Request(m, "/create-order", "ok", h, a, c, EmptyStr, EmptyStr, NoSignature) :
        m \in {"POST", "GET", "OPTIONS"}, h \in BOOLEAN,
        a \in RequestAmounts, c \in {"", "USD"}}
VerifyRequests ==
    {Request(m, "/verify-payment", "ok", FALSE, 0, "", pid, oid, sig) :
        m \in {"POST", "OPTIONS"},
        pid \in {PaymentId1, <<"1">>, EmptyStr},
        oid \in {ProviderOrderId, OrderIdWithBar, EmptyStr},
        sig \in RequestSignatures}
OtherRequests ==
    {Request("POST", "/create-order", "malformed", FALSE, 0, "", EmptyStr, EmptyStr, NoSignature),
     Request("POST", "/verify-payment", "malformed", FALSE, 0, "", EmptyStr, EmptyStr, NoSignature),
     Request("GET", "/health", "ok", FALSE, 0, "", EmptyStr, EmptyStr, NoSignature)}
Requests == CreateOrderRequests \cup VerifyRequests \cup OtherRequests

\* the provider outcomes a request can meet
RelevantOutcomes(req) ==
    IF req.path = "/create-order" THEN OrderOutcomes
    ELSE IF req.path = "/verify-payment" THEN PaymentOutcomes
    ELSE {[order |-> "ok", payment |-> "captured"]}

NoExchange ==
    [served |-> FALSE,
     request |-> Request("", "", "ok", FALSE, 0, "", EmptyStr, EmptyStr, NoSignature),
     provider |-> [order |-> "ok", payment |-> "captured"],
     response |-> NoResponse]

ServeRequest ==
    /\ \E req \in Requests : \E prov \in RelevantOutcomes(req) :
          exchange' = [served |-> TRUE, request |-> req, provider |-> prov,
                       response |-> Serve(req, env, prov)]
    /\ UNCHANGED <<loaderVars, env, purchase, tester, verification>>

----------------------------------------------------------------------------
(* Direct calls of the public verifier *)

\* verifyPaymentWithBackend is a public static method: the identifiers a
\* caller may pass to it, among them those of a demo result and those of a
\* provider-signed payment
VerifierInputs ==
    {Triple(DemoPaymentId, DemoOrderId, DemoSignature),
     Triple(DemoPaymentId, ProviderOrderId, RawSignature(HexDigestLen)),
     Triple(PaymentId1, DemoOrderId, RawSignature(HexDigestLen)),
     Triple(PaymentId1, ProviderOrderId, ProviderSignature(ProviderOrderId, PaymentId1)),
     Triple(PaymentId1, ProviderOrderId,
            FlipOneChar(ProviderSignature(ProviderOrderId, PaymentId1))),
     Triple(PaymentId1, ProviderOrderId, RawSignature(5)),
     Triple(<<"1">>, ProviderOrderId, RawSignature(HexDigestLen)),
     Triple(EmptyStr, ProviderOrderId, RawSignature(HexDigestLen))}

NoVerification ==
    [called   |-> FALSE,
     payment  |-> Triple(EmptyStr, EmptyStr, NoSignature),
     provider |-> [order |-> "ok", payment |-> "captured"],
     requests |-> 0,
     response |-> NoResponse,
     result   |-> Verification(FALSE, "")]

\* one whole call of verifyPaymentWithBackend (409-456): the parameter
\* check, the fetch and its answer, the catch block
CallVerifyPaymentWithBackend ==
    /\ \E pay \in VerifierInputs, net \in {"reached", "unreachable"},
          prov \in PaymentOutcomes :
          LET resp == Serve(VerifyRequest(pay), env, prov)
              got  == IF net = "reached" THEN resp ELSE NoResponse
          IN  verification' =
                IF MissingPaymentParams(pay)
                THEN [NoVerification EXCEPT
                        !.called = TRUE, !.payment = pay,
                        !.result = Verification(FALSE, "Missing payment parameters")]
                ELSE [called   |-> TRUE,
                      payment  |-> pay,
                      provider |-> prov,
                      requests |-> 1,
                      response |-> got,
                      result   |-> VerifyPaymentWithBackend(pay, net, resp)]
    /\ UNCHANGED <<loaderVars, env, purchase, tester, exchange>>

----------------------------------------------------------------------------
(* Specifications *)

\* the page as loaded: nothing requested yet; checkout.js may already have
\* been included by the page itself
ClientInit ==
    /\ isRazorpayLoaded = FALSE
    /\ loadingPromise = 0
    /\ promises = <<>>
    /\ scripts = <<>>
    /\ windowRazorpay \in BOOLEAN
    /\ purchase = IdlePurchase
    /\ tester = IdleTester
    /\ exchange = NoExchange
    /\ verification = NoVerification

Init ==
    /\ ClientInit
    /\ env \in {ConfiguredEnv, NoSecretEnv}

ServerInit ==
    /\ ClientInit
    /\ ~windowRazorpay
    /\ env \in Envs

Next ==
    \/ CallInitiatePayment
    \/ BuyCoinPackage
    \/ SubscribeToPremium
    \/ SubscribeToUnlimitedCalls
    \/ OrderRequestFails
    \/ CheckoutOpens
    \/ CheckoutConstructionFails
    \/ SimulationTimer
    \/ SuccessHandler
    \/ VerifyAnswered
    \/ OnDismiss
    \/ OnPaymentFailed
    \/ TestPaymentGateway
    \/ TesterHealthAnswered
    \/ OnLoad
    \/ OnError
    \/ Timeout

Spec == Init /\ [][Next]_vars

\* setTimeout(..., 10000): an armed timer fires unless onload or onerror
\* clears it first
LiveSpec == Init /\ [][Next]_vars /\ WF_vars(Timeout)

ServerNext == ServeRequest

ServerSpec == ServerInit /\ [][ServerNext]_vars

VerifierNext == CallVerifyPaymentWithBackend

VerifierSpec == ServerInit /\ [][VerifierNext]_vars

----------------------------------------------------------------------------
(* Claims *)

Cancelled == Failure("Payment cancelled by user")
\* the success handler was the first to resolve the purchase
HandlerResolvedFirst ==
    purchase.handler = "done" /\ ~purchase.dismissed /\ ~purchase.failedEvent
ExceptionCauses == {"InvalidAmount", "OrderCreationFailed", "CheckoutFailed"}

\* C1: a purchase resolves with success=true only if verify-payment has
\* answered verified=true for the payment id and order id it reports.
C1_SuccessOnlyIfVerified ==
    (purchase.resolved /\ purchase.result.success) =>
        /\ purchase.verifyResponse.verified
        /\ purchase.verifyResponse.paymentId = purchase.result.paymentId
        /\ purchase.verifyResponse.orderId = purchase.result.orderId

\* C2: once verify-payment has answered the success handler's request, the
\* purchase is a success exactly when the answer says verified=true, and
\* otherwise a failure carrying the error of the answer.
C2_VerificationDecidesResult ==
    (HandlerResolvedFirst /\ purchase.verifyResponse.status # 0) =>
        IF purchase.verifyResponse.verified
        THEN purchase.result.success
        ELSE /\ ~purchase.result.success
             /\ purchase.result.error = purchase.verifyResponse.error

\* C3: a verify-payment request whose signature is not
\* HMAC-SHA256(secret, orderId|paymentId) is never answered verified=true,
\* whatever the provider's status lookup would return.
C3_WrongSignatureNeverVerified ==
    (/\ exchange.served
     /\ exchange.request.signature #
            Hmac(env.keySecret,
                 JoinWithBar(exchange.request.orderId, exchange.request.paymentId)))
    => ~exchange.response.verified

C3_Witness ==
    /\ exchange.served
    /\ env = ConfiguredEnv
    /\ exchange.request.method = "POST"
    /\ exchange.request.path = "/verify-payment"
    /\ exchange.request.signature =
           FlipOneChar(Hmac(ProviderSecret, JoinWithBar(ProviderOrderId, PaymentId1)))
    /\ exchange.request.orderId = ProviderOrderId
    /\ exchange.request.paymentId = PaymentId1
    /\ exchange.provider.payment = "captured"
    /\ exchange.response.status = 400
    /\ exchange.response.error = "Invalid payment signature"

\* a well-formed verify-payment request reaching a configured backend
WellFormedVerify ==
    /\ exchange.served
    /\ env.keyId # "" /\ env.keySecret # ""
    /\ exchange.request.method = "POST"
    /\ exchange.request.path = "/verify-payment"
    /\ exchange.request.json = "ok"
    /\ exchange.request.paymentId # EmptyStr
    /\ exchange.request.orderId # EmptyStr
    /\ exchange.request.signature.len > 0
SignatureMatches ==
    exchange.request.signature =
        Hmac(env.keySecret,
             JoinWithBar(exchange.request.orderId, exchange.request.paymentId))
EchoesIds ==
    /\ exchange.response.paymentId = exchange.request.paymentId
    /\ exchange.response.orderId = exchange.request.orderId

\* C4 as stated: every well-formed verify-payment request whose signature is
\* HMAC-SHA256(secret, orderId|paymentId) is answered verified=true with the
\* request's payment id and order id.
C4_MatchingSignatureAlwaysVerified ==
    (WellFormedVerify /\ SignatureMatches) =>
        (exchange.response.verified /\ EchoesIds)

\* C4 amended: a well-formed verify-payment request is answered
\* verified=true (status 200, with the request's ids) exactly when its
\* signature matches and the status lookup did not succeed with a status
\* other than captured/authorized; a matching signature with such a status
\* is answered 400 'Payment not completed successfully'.
C4_VerifiedIffSignatureAndStatus ==
    WellFormedVerify =>
        /\ exchange.response.verified <=>
              (SignatureMatches /\ exchange.provider.payment \notin {"failed", "created"})
        /\ exchange.response.verified =>
              (exchange.response.status = 200 /\ exchange.response.success /\ EchoesIds)
        /\ (SignatureMatches /\ exchange.provider.payment \in {"failed", "created"}) =>
              /\ exchange.response.status = 400
              /\ exchange.response.error = "Payment not completed successfully"

C4_Witness ==
    /\ WellFormedVerify
    /\ SignatureMatches
    /\ exchange.provider.payment = "http_error"
    /\ exchange.response.verified
    /\ EchoesIds

\* C5: simulatePayment runs only when the gateway could not load, and a
\* purchase that failed for any other reason resolves with success=false.
C5_DemoOnlyWhenGatewayUnavailable ==
    /\ purchase.simulated => purchase.cause = "GatewayUnavailable"
    /\ (purchase.resolved /\ purchase.cause \in ExceptionCauses) =>
           ~purchase.result.success

\* C6: a purchase never rejects, and one in which an exception was raised
\* (validation, order creation, checkout construction, or a verification
\* whose request failed or was answered with an error status) resolves with
\* success=false and an error text.
C6_ExceptionsBecomeFailures ==
    /\ ~purchase.thrown
    /\ (/\ purchase.resolved
        /\ \/ purchase.cause \in ExceptionCauses
           \/ /\ HandlerResolvedFirst
              /\ purchase.verifyRequests > 0
              /\ ~ResponseOk(purchase.verifyResponse))
       => (~purchase.result.success /\ purchase.result.error # "")

\* C7: initiatePayment with an amount <= 0 or > 100000 injects no script,
\* sends no create-order and no verify-payment request, and resolves as a
\* failure with the invalid-amount error.
C7_InvalidAmountFailsWithoutNetwork ==
    (/\ purchase.initiated
     /\ purchase.amount <= 0 \/ purchase.amount > Rupees(100000))
    => /\ ~purchase.injected
       /\ purchase.orderRequests = 0
       /\ purchase.verifyRequests = 0
       /\ purchase.resolved =>
             (~purchase.result.success /\ purchase.result.error = "Invalid payment amount")

\* C8: whenever an order was created, the amount handed to the checkout UI
\* is 100 times the amount of the create-order response and the currency is
\* the currency of that response.
C8_CheckoutAmountFromOrder ==
    (purchase.checkout # NoCheckout) =>
        /\ purchase.checkout.amount = 100 * purchase.orderResponse.amount
        /\ purchase.checkout.currency = purchase.orderResponse.currency

\* C9: callers of loadRazorpay that wait at the same time wait for the same
\* promise, and at most one injected script has a load still pending.
C9_SingleFlight ==
    /\ (purchase.pc = "awaitLoad" /\ tester.pc = "awaitLoad") =>
           purchase.wait = tester.wait
    /\ Cardinality({i \in 1..Len(scripts) :
                       promises[scripts[i].promise] = "pending"}) <= 1

\* C10: once the checkout UI is open, the result delivered for the purchase
\* never changes after it has been delivered, and a dismissal of a still
\* pending purchase delivers 'Payment cancelled by user'.
C10_ResolvedExactlyOnce ==
    [][(purchase.opened /\ purchase'.opened) =>
          /\ purchase.resolved =>
                (purchase'.resolved /\ purchase'.result = purchase.result)
          /\ (~purchase.resolved /\ ~purchase.dismissed /\ purchase'.dismissed) =>
                (purchase'.resolved /\ purchase'.result = Cancelled)]_vars

\* a purchase cancelled first whose payment was then reported and verified
C10_Witness ==
    /\ purchase.opened
    /\ purchase.dismissed
    /\ purchase.handler = "done"
    /\ purchase.verifyResponse.verified
    /\ purchase.resolved
    /\ purchase.result = Cancelled

\* a step in which some caller calls loadRazorpay
CallsLoadRazorpay ==
    \/ TestPaymentGateway
    \/ /\ \/ CallInitiatePayment
          \/ BuyCoinPackage
          \/ SubscribeToPremium
          \/ SubscribeToUnlimitedCalls
       /\ purchase'.initiated
       /\ ~ClientInvalidAmount(purchase'.amount)
\* script i's load ends in error or timeout in this step
LoadFails(i) ==
    \/ scripts[i].fired = "none" /\ scripts'[i].fired = "error"
    \/ scripts[i].timer /\ ~scripts'[i].timer /\ scripts'[i].fired = "none"
\* some load has failed and no load has been started since
FailedAndCleared == Len(scripts) > 0 /\ loadingPromise = 0
\* the call of this step injects a script and returns its pending promise
StartsFreshLoad ==
    /\ Len(scripts') = Len(scripts) + 1
    /\ Len(promises') = Len(promises) + 1
    /\ scripts'[Len(scripts')].inDom
    /\ scripts'[Len(scripts')].promise = Len(promises')
    /\ promises'[Len(promises')] = "pending"
    /\ loadingPromise' = Len(promises')
\* every failure step clears the handle and removes the element
FailureClears ==
    \A i \in 1..Len(scripts) :
        LoadFails(i) =>
            /\ loadingPromise' = 0
            /\ ~scripts'[i].inDom
            /\ promises'[scripts[i].promise] # "pending"

\* C11 as stated: a load that ends in error or timeout clears the in-flight
\* handle and removes the script element, and the next loadRazorpay call
\* injects a new script.
C11_FailureAlwaysRestartsLoad ==
    [][/\ FailureClears
       /\ (FailedAndCleared /\ CallsLoadRazorpay) => StartsFreshLoad]_vars

\* C11 amended: a load that ends in error or timeout clears the in-flight
\* handle and removes the script element; the next loadRazorpay call never
\* returns the failed promise: it injects a new script and returns its
\* pending promise, unless the gateway has become available in the meantime
\* (a late load event of a removed element), and then it returns true
\* without injecting anything.
C11_FailureClearsAndNextCallRetries ==
    [][/\ FailureClears
       /\ (FailedAndCleared /\ CallsLoadRazorpay) =>
             IF ~isRazorpayLoaded /\ ~windowRazorpay
             THEN StartsFreshLoad
             ELSE /\ scripts' = scripts
                  /\ \A h \in 0..MaxLoads :
                        LoadRazorpay(h) => (Settled(h)' /\ LoadValue(h)')]_vars

\* a second load in flight after the first one failed and was removed
C11_Witness ==
    /\ Len(scripts) >= 2
    /\ promises[1] = "false"
    /\ ~scripts[1].inDom
    /\ scripts[2].inDom
    /\ promises[2] = "pending"
    /\ loadingPromise = 2

\* some load has resolved true
PreviousLoadSucceeded == \E i \in 1..Len(promises) : promises[i] = "true"

\* C12: a loadRazorpay call made while window.Razorpay is defined, or after
\* a load has resolved true, returns true and injects no script element.
C12_ReadyReturnsTrueWithoutInjection ==
    [][\A h \in 0..MaxLoads :
          (/\ CallsLoadRazorpay
           /\ LoadRazorpay(h)
           /\ windowRazorpay \/ PreviousLoadSucceeded)
          => (scripts' = scripts /\ Settled(h)' /\ LoadValue(h)')]_vars

\* the first event of script i settles its promise in this step
SettlesPromise(i) ==
    /\ promises[scripts[i].promise] = "pending"
    /\ promises'[scripts[i].promise] # "pending"

MissingCredentials == env.keyId = "" \/ env.keySecret = ""
EndpointRequest(path) ==
    /\ exchange.served
    /\ exchange.request.method = "POST"
    /\ exchange.request.path = path
ConfiguredRequest(path) ==
    /\ EndpointRequest(path)
    /\ ~MissingCredentials
    /\ exchange.request.json = "ok"

\* C14: a verify-payment request with a valid signature whose status lookup
\* fails (exception or non-OK answer) is answered 200 with success=true and
\* verified=true.
C14_LookupFailureKeepsVerified ==
    (/\ WellFormedVerify
     /\ SignatureMatches
     /\ exchange.provider.payment \in {"http_error", "network"})
    => /\ exchange.response.status = 200
       /\ exchange.response.success
       /\ exchange.response.verified
       /\ EchoesIds

C14_Witness ==
    /\ WellFormedVerify
    /\ SignatureMatches
    /\ exchange.provider.payment = "network"
    /\ Len(exchange.response.calls) = 1
    /\ exchange.response.status = 200
    /\ exchange.response.verified

ConfigurationError == "Payment service configuration error"

\* C15: with the key id or the key secret missing, every POST to create-order
\* and verify-payment is answered 500 with the configuration error, without
\* a provider call or a signature computation; no response of a backend that
\* has both credentials carries that error.
C15_MissingCredentialsAnswered500 ==
    /\ (/\ EndpointRequest("/create-order") \/ EndpointRequest("/verify-payment")
        /\ MissingCredentials)
       => /\ exchange.response.status = 500
          /\ ~exchange.response.success
          /\ exchange.response.error = ConfigurationError
          /\ exchange.response.calls = <<>>
          /\ ~exchange.response.hmac
    /\ (exchange.served /\ ~MissingCredentials) =>
          exchange.response.error # ConfigurationError

\* an acceptable order request reaching a backend without key id
C15_Witness ==
    /\ EndpointRequest("/create-order")
    /\ env = NoKeyIdEnv
    /\ exchange.request.json = "ok"
    /\ exchange.request.hasAmount
    /\ exchange.request.amount = Rupees(299)
    /\ exchange.response.status = 500
    /\ exchange.response.error = ConfigurationError

\* C16: a verify-payment request lacking the payment id, the order id or the
\* signature is answered 400 'Missing payment verification parameters',
\* with no signature computed and no provider call.
C16_MissingFieldsAnswered400 ==
    (/\ ConfiguredRequest("/verify-payment")
     /\ \/ exchange.request.paymentId = EmptyStr
        \/ exchange.request.orderId = EmptyStr
        \/ exchange.request.signature.len = 0)
    => /\ exchange.response.status = 400
       /\ ~exchange.response.success
       /\ exchange.response.error = "Missing payment verification parameters"
       /\ exchange.response.calls = <<>>
       /\ ~exchange.response.hmac

\* only the order id is missing
C16_Witness ==
    /\ ConfiguredRequest("/verify-payment")
    /\ exchange.request.paymentId = PaymentId1
    /\ exchange.request.orderId = EmptyStr
    /\ exchange.request.signature.len = HexDigestLen
    /\ exchange.response.status = 400
    /\ exchange.response.error = "Missing payment verification parameters"

\* C17: create-order answers 400 without a provider call when the amount is
\* missing, <= 0 or > 100000, and makes exactly one order-creation call for
\* every other amount.
C17_AmountBoundsDecideProviderCall ==
    ConfiguredRequest("/create-order") =>
        IF \/ ~exchange.request.hasAmount
           \/ exchange.request.amount <= 0
           \/ exchange.request.amount > Rupees(100000)
        THEN /\ exchange.response.status = 400
             /\ ~exchange.response.success
             /\ exchange.response.calls = <<>>
        ELSE /\ exchange.response.status # 400
             /\ Len(exchange.response.calls) = 1
             /\ exchange.response.calls[1].api = "orders"

\* the largest amount accepted
C17_Witness ==
    /\ ConfiguredRequest("/create-order")
    /\ exchange.request.hasAmount
    /\ exchange.request.amount = Rupees(100000)
    /\ Len(exchange.response.calls) = 1
    /\ exchange.response.status = 200

\* an accepted create-order request whose provider call succeeded
OrderCreated ==
    /\ ConfiguredRequest("/create-order")
    /\ exchange.response.status = 200
    /\ exchange.provider.order = "ok"
WholePaise(amount) == (amount * 100) % Scale = 0

\* C18 as stated: the provider is called with amount x 100 and the response
\* carries the requested amount.
C18_ResponseAmountEqualsRequest ==
    OrderCreated =>
        /\ exchange.response.calls[1].amount = exchange.request.amount * 100
        /\ exchange.response.amount = exchange.request.amount

\* C18 amended: the provider is called with amount x 100 rounded to the
\* nearest whole paisa, and the response amount is that number of paise
\* divided by 100; for an amount that is a whole number of paise the call
\* carries exactly amount x 100 and the response the requested amount.
C18_ScaledOnceRoundedToPaise ==
    OrderCreated =>
        LET paise == exchange.response.calls[1].amount
            exact == exchange.request.amount * 100
        IN  /\ paise % Scale = 0
            /\ paise - exact <= Scale \div 2
            /\ exact - paise < Scale \div 2
            /\ exchange.response.amount * 100 = paise
            /\ WholePaise(exchange.request.amount) =>
                  /\ paise = exact
                  /\ exchange.response.amount = exchange.request.amount

\* 299 in, 29900 paise to the provider, 299 out
C18_Witness ==
    /\ OrderCreated
    /\ exchange.request.amount = Rupees(299)
    /\ exchange.response.calls[1].amount = Rupees(29900)
    /\ exchange.response.amount = Rupees(299)

\* the texts of a response body, and the texts that must stay inside
BodyTexts(resp) ==
    {resp.error, resp.currency}
        \cup {resp.paymentId[i] : i \in 1..Len(resp.paymentId)}
        \cup {resp.orderId[i] : i \in 1..Len(resp.orderId)}
InternalTexts ==
    {ProviderErrorText, ApiErrorMessage, NetworkErrorMessage} \cup
    (IF env.keySecret = "" THEN {} ELSE {env.keySecret})

\* C19: a failed provider call of create-order is answered 500 'Failed to
\* create payment order', and no response body carries the key secret, the
\* basic-auth header or an error text of the provider call.
C19_ProviderFailureGeneric500 ==
    /\ (/\ ConfiguredRequest("/create-order")
        /\ Len(exchange.response.calls) = 1
        /\ exchange.provider.order \in {"http_error", "network"})
       => /\ exchange.response.status = 500
          /\ ~exchange.response.success
          /\ exchange.response.error = "Failed to create payment order"
    /\ exchange.served =>
          /\ BodyTexts(exchange.response) \cap InternalTexts = {}
          /\ exchange.response.paymentId # BasicAuth(env)
          /\ exchange.response.orderId # BasicAuth(env)

C19_Witness ==
    /\ ConfiguredRequest("/create-order")
    /\ exchange.provider.order = "http_error"
    /\ Len(exchange.response.calls) = 1
    /\ exchange.response.calls[1].auth = BasicAuth(ConfiguredEnv)
    /\ exchange.response.status = 500
    /\ exchange.response.error = "Failed to create payment order"

\* the operation was called with a key that is not in the catalog
UnknownKey == purchase.selection \in {"undefined", "inherited"}
InvalidSelectionErrors ==
    {"Invalid coin package selected", "Invalid premium plan selected"}

\* C20: buyCoinPackage and subscribeToPremium called with a key that is not
\* in the catalog return at once with success=false and the invalid
\* selection error, without injecting a script and without a backend
\* request.
C20_UnknownKeyFailsFast ==
    UnknownKey =>
        /\ purchase.resolved
        /\ ~purchase.result.success
        /\ purchase.result.error \in InvalidSelectionErrors
        /\ ~purchase.injected
        /\ purchase.orderRequests = 0
        /\ purchase.verifyRequests = 0

\* C21: a purchase sends at most one create-order request and at most one
\* verify-payment request, the latter for the order the former created, and
\* sends nothing more once a request of it has failed.
C21_OneOrderOneVerification ==
    /\ purchase.orderRequests <= 1
    /\ purchase.verifyRequests <= 1
    /\ purchase.verifyRequests = 1 =>
          /\ purchase.orderRequests = 1
          /\ purchase.orderResponse.success
          /\ purchase.payment.orderId = purchase.orderResponse.orderId
    /\ purchase.cause = "OrderCreationFailed" =>
          (purchase.orderRequests = 1 /\ purchase.verifyRequests = 0)

\* a purchase whose order was created and whose verification was refused
C21_Witness ==
    /\ purchase.orderRequests = 1
    /\ purchase.verifyRequests = 1
    /\ purchase.handler = "done"
    /\ purchase.verifyResponse.status = 400
    /\ purchase.resolved
    /\ ~purchase.result.success

\* C22: every response of the backend carries the cross-origin headers; a
\* preflight is answered 200 without a body whatever the credentials and
\* the path, and every other request is answered with a body.
C22_EveryResponseHasCorsHeaders ==
    exchange.served =>
        /\ exchange.response.cors
        /\ IF exchange.request.method = "OPTIONS"
           THEN exchange.response.status = 200 /\ ~exchange.response.hasBody
           ELSE exchange.response.hasBody

\* a preflight to verify-payment on a backend without key secret
C22_Witness ==
    /\ exchange.served
    /\ env = NoSecretEnv
    /\ exchange.request.method = "OPTIONS"
    /\ exchange.request.path = "/verify-payment"
    /\ exchange.response.status = 200
    /\ ~exchange.response.hasBody
    /\ exchange.response.cors

\* a step in which a load is confirmed: a script's load event, or a call
\* that finds window.Razorpay defined
LoadConfirmed ==
    \/ \E i \in 1..Len(scripts) :
          scripts[i].fired = "none" /\ scripts'[i].fired = "load"
    \/ /\ Len(promises') = Len(promises) + 1
       /\ promises'[Len(promises')] = "true"

\* C23: isRazorpayLoaded changes only in a step that confirms a load, and
\* then to true; once true it stays true.
C23_ReadyFlagChangesOnlyOnSuccess ==
    [][/\ isRazorpayLoaded => isRazorpayLoaded'
       /\ (isRazorpayLoaded' # isRazorpayLoaded) =>
             (isRazorpayLoaded' /\ LoadConfirmed)]_vars

\* C25: the in-flight handle is cleared only by the error or timeout of the
\* script whose promise it holds, and at most one load is pending at any
\* time.
C25_HandleClearedOnlyByOwnLoad ==
    [][/\ (loadingPromise # 0 /\ loadingPromise' # loadingPromise) =>
             /\ loadingPromise' = 0
             /\ \E i \in 1..Len(scripts) :
                   scripts[i].promise = loadingPromise /\ LoadFails(i)
       /\ Cardinality({id \in 1..Len(promises') : promises'[id] = "pending"}) <= 1]_vars

\* C24: the create-order request, the verify-payment request and the health
\* check the client has sent each carry the bearer credential in their
\* Authorization header.
C24_EveryRequestCarriesBearer ==
    /\ purchase.orderRequests > 0 => CreateOrderFetch.authorization = AnonKeyBearer
    /\ purchase.verifyRequests > 0 => VerifyPaymentFetch.authorization = AnonKeyBearer
    /\ tester.health # NoFetch => tester.health.authorization = AnonKeyBearer

\* C26: once verify-payment has answered verified=true for the payment the
\* success handler received, the purchase is resolved with success=true and
\* that payment's ids, whatever dismiss or payment.failed events occurred.
C26_VerifiedPaymentReportedAsSuccess ==
    (purchase.handler = "done" /\ purchase.verifyResponse.verified) =>
        /\ purchase.resolved
        /\ purchase.result.success
        /\ purchase.result.paymentId = purchase.payment.paymentId
        /\ purchase.result.orderId = purchase.payment.orderId

\* C27: the checkout UI is open only in a purchase whose loadRazorpay call
\* gave true and whose create-order request was answered with a created
\* order, and it is opened for that order; a verify-payment request has been
\* sent only if the success handler has received a payment id, order id and
\* signature for that order.
C27_CheckoutAfterLoadAndOrder ==
    /\ purchase.opened =>
          /\ purchase.isLoaded = "true"
          /\ purchase.orderRequests = 1
          /\ purchase.orderResponse.status = 200
          /\ purchase.orderResponse.success
          /\ purchase.checkout.order_id = purchase.orderResponse.orderId
    /\ purchase.verifyRequests > 0 =>
          /\ purchase.opened
          /\ purchase.handler # "none"
          /\ purchase.payment.paymentId # EmptyStr
          /\ purchase.payment.signature.len > 0
          /\ purchase.payment.orderId = purchase.checkout.order_id

\* a verification in flight
C27_Witness ==
    /\ purchase.opened
    /\ purchase.isLoaded = "true"
    /\ purchase.handler = "verifying"
    /\ purchase.verifyRequests = 1
    /\ purchase.payment.orderId = purchase.orderResponse.orderId

\* C28: a purchase whose loadRazorpay call gave false is simulated: it has
\* sent no create-order request, opened no checkout UI and sent no
\* verify-payment request, and its result is the simulated one.
C28_UnavailableGatewayContactsNothing ==
    purchase.isLoaded = "false" =>
        /\ purchase.simulated
        /\ purchase.orderRequests = 0
        /\ purchase.checkout = NoCheckout
        /\ ~purchase.opened
        /\ purchase.verifyRequests = 0
        /\ purchase.resolved => purchase.result = DemoResult

\* a purchase simulated after its script load failed
C28_Witness ==
    /\ purchase.isLoaded = "false"
    /\ purchase.injected
    /\ purchase.cause = "GatewayUnavailable"
    /\ purchase.resolved
    /\ purchase.result = DemoResult

\* C30: a verify-payment request with a valid signature whose status
\* lookup succeeds with a status other than captured or authorized is
\* answered 400 with success=false and without verified=true.
C30_UnsettledPaymentRejected ==
    (/\ WellFormedVerify
     /\ SignatureMatches
     /\ exchange.provider.payment \in {"failed", "created"})
    => /\ exchange.response.status = 400
       /\ ~exchange.response.success
       /\ ~exchange.response.verified
       /\ exchange.response.error = "Payment not completed successfully"

C30_Witness ==
    /\ WellFormedVerify
    /\ SignatureMatches
    /\ exchange.provider.payment = "failed"
    /\ Len(exchange.response.calls) = 1
    /\ exchange.response.calls[1].api = "payments"
    /\ exchange.response.status = 400
    /\ ~exchange.response.verified

\* the mark of the demo path on a pair of identifiers
DemoMarked(ids) ==
    StartsWith(ids.paymentId, "demo_pay_") \/ StartsWith(ids.orderId, "demo_order_")

\* C29: the result of the demo path carries demo-marked identifiers, no
\* payment the backend verified carries the mark, and the client's
\* verification never reports success for demo-marked identifiers
C29_DemoMarkedNeverVerified ==
    /\ StartsWith(DemoResult.paymentId, "demo_pay_")
    /\ StartsWith(DemoResult.orderId, "demo_order_")
    /\ verification.called =>
          /\ verification.response.verified => ~DemoMarked(verification.payment)
          /\ DemoMarked(verification.payment) => ~verification.result.success

====
